---- MODULE Spec2Model ----
(***************************************************************************)
(* Invertible-flow stack of the VITS2 recipe (egs/ljspeech/TTS/vits2):     *)
(* the residual coupling layers and block of residual_coupling.py and the  *)
(* stochastic duration predictor of duration_predictor.py.                 *)
(*                                                                         *)
(* Tensors.  A tensor (B, C, T) is modelled for one batch element as a     *)
(* sequence over channels of sequences over time of numbers; a mask        *)
(* (B, 1, T) as a sequence over time of 0/1.  Every operation of the       *)
(* source acts on each batch element independently, but for the shape of   *)
(* the transformer's padding mask, which is modelled on tensors that carry *)
(* their shape (ShapedTensor).                                             *)
(*                                                                         *)
(* Numbers.  A floating point value is modelled by a real number, kept     *)
(* exactly: a dyadic rational n / 2^e, the record [n, e] in lowest terms,  *)
(* or, where the program applies a function that leaves the rationals      *)
(* (torch.sigmoid, F.logsigmoid, torch.log, math.log(2 * math.pi)), the    *)
(* term [op, args] that names the function and what it was applied to.     *)
(* Arithmetic on dyadic rationals is carried out; arithmetic on a term     *)
(* gives a term.  Two numbers written alike are equal.                     *)
(*                                                                         *)
(* A log-scale is kept in units of ln 2: the whole number l stands for     *)
(* logs = l * ln 2, so torch.exp(logs) is 2^l and multiplying by exp(l)    *)
(* and by exp(-l) stays within the dyadic rationals.  The coupling layers  *)
(* return their logdet in these units.  The duration predictor adds the    *)
(* logdets of its stages to natural logarithms, so there a logdet is the   *)
(* number Nats(l) = l * ln 2.  Masks, learned parameters and noise_scale   *)
(* are integers.                                                           *)
(***************************************************************************)
EXTENDS Integers, Sequences, FiniteSets, TLC

\* ---------------------------------------------------------------- bounds
MaxChannels == 2     \* in_channels is drawn from 1..MaxChannels
MaxT == 2            \* sequence length T is drawn from 1..MaxT
MaxVal == 1          \* input tensor entries are drawn from 0..MaxVal
MaxFlows == 2        \* the number of flows N is drawn from 0..MaxFlows
MaxCalls == 2        \* calls made in a row on one piece of data
MaxBatch == 3        \* batch size B is drawn from 1..MaxBatch
MaxRecordings == 2   \* recordings of the corpus are drawn from 1..MaxRecordings
MaxRuns == 3         \* runs of the feature extraction script

\* ---------------------------------------------------------------- numbers
RECURSIVE Pow2(_)
Pow2(n) == IF n <= 0 THEN 1 ELSE 2 * Pow2(n - 1)

\* the number n / 2^e, in lowest terms
RECURSIVE Dyadic(_, _)
Dyadic(n, e) ==
    IF e = 0 THEN [n |-> n, e |-> 0]
    ELSE IF e < 0 THEN [n |-> n * Pow2(-e), e |-> 0]
    ELSE IF n % 2 = 0 THEN Dyadic(n \div 2, e - 1)
    ELSE [n |-> n, e |-> e]

\* the whole number k
Num(k) == [n |-> k, e |-> 0]

\* a number that is not a dyadic rational: the function op applied to args
Term(op, args) == [op |-> op, args |-> args]

IsDyadic(v) == "n" \in DOMAIN v

\* a + b, a - b, a * b
Plus(a, b) ==
    IF IsDyadic(a) /\ IsDyadic(b)
    THEN IF a.e = b.e THEN Dyadic(a.n + b.n, a.e)
         ELSE IF a.e > b.e THEN Dyadic(a.n + b.n * Pow2(a.e - b.e), a.e)
         ELSE Dyadic(a.n * Pow2(b.e - a.e) + b.n, b.e)
    ELSE IF a = Num(0) THEN b
    ELSE IF b = Num(0) THEN a
    ELSE Term("+", <<a, b>>)

Minus(a, b) ==
    IF IsDyadic(a) /\ IsDyadic(b)
    THEN IF a.e = b.e THEN Dyadic(a.n - b.n, a.e)
         ELSE IF a.e > b.e THEN Dyadic(a.n - b.n * Pow2(a.e - b.e), a.e)
         ELSE Dyadic(a.n * Pow2(b.e - a.e) - b.n, b.e)
    ELSE IF b = Num(0) THEN a
    ELSE Term("-", <<a, b>>)

Times(a, b) ==
    IF IsDyadic(a) /\ IsDyadic(b) THEN Dyadic(a.n * b.n, a.e + b.e)
    ELSE IF a = Num(0) \/ b = Num(0) THEN Num(0)
    ELSE IF a = Num(1) THEN b
    ELSE IF b = Num(1) THEN a
    ELSE Term("*", <<a, b>>)

\* v * k for an integer k: a mask entry, a weight, noise_scale
Scaled(v, k) == Times(v, Num(k))

\* ln 2, and the log-scale or logdet l, kept in units of ln 2, as a number
Ln2 == Term("math.log", <<Num(2)>>)
Nats(l) == Times(l, Ln2)

\* v * torch.exp(logs) for a whole log-scale l in units of ln 2: v * 2^l
MulExp(v, l) ==
    IF IsDyadic(v) THEN Dyadic(v.n, v.e - l.n)
    ELSE IF l = Num(0) THEN v
    ELSE Term("*", <<v, Term("torch.exp", <<Nats(l)>>)>>)

\* ---------------------------------------------------------------- tensors
RECURSIVE SumSeq(_)
SumSeq(s) == IF s = <<>> THEN Num(0) ELSE Plus(Head(s), SumSeq(Tail(s)))

\* torch.sum(x, [1, 2]): sum over channels and time
SumAll(x) == SumSeq([c \in 1..Len(x) |-> SumSeq(x[c])])

TimeOf(x) == IF Len(x) = 0 THEN 0 ELSE Len(x[1])

\* torch computes the elements of a tensor when the tensor is made: the
\* sequence s, and the tensor x, with every element computed
Computed(s) == SubSeq(s, 1, Len(s))
ComputedTensor(x) == Computed([c \in 1..Len(x) |-> Computed(x[c])])

\* x * x_mask, the mask broadcast over channels
Masked(x, x_mask) ==
    ComputedTensor(
        [c \in 1..Len(x) |-> [t \in 1..Len(x[c]) |-> Scaled(x[c][t], x_mask[t])]])

Add(x, y) ==
    ComputedTensor(
        [c \in 1..Len(x) |-> [t \in 1..Len(x[c]) |-> Plus(x[c][t], y[c][t])]])

\* x.split(n, dim=1) unpacked into two names: the chunks 1..n and n+1..2n
SplitA(x, n) == SubSeq(x, 1, n)
SplitB(x, n) == SubSeq(x, n + 1, Len(x))

\* torch.cat([a, b], 1)
Cat(a, b) == a \o b

\* the tensors (C, T) with whole entries drawn from vals
Tensors(C, T, vals) == [1..C -> [1..T -> {Num(v) : v \in vals}]]
Masks(T) == [1..T -> {0, 1}]

\* the two tensors agree wherever the mask is 1
EqualOnValid(x, y, x_mask) ==
    /\ Len(x) = Len(y)
    /\ \A c \in 1..Len(x) : \A t \in 1..Len(x_mask) :
           x_mask[t] = 1 => x[c][t] = y[c][t]

\* the tensor is zero wherever the mask is 0
ZeroOnPadding(x, x_mask) ==
    \A c \in 1..Len(x) : \A t \in 1..Len(x_mask) :
        x_mask[t] = 0 => x[c][t] = Num(0)

\* g is None (the empty sequence) or a one-channel global embedding <<v>>
GlobalOf(g) == IF g = <<>> THEN Num(0) ELSE g[1]

\* ---------------------------------------------------------------- parameters
\* The learned parameters of one coupling layer.  The hidden representation
\* has one channel; every convolution of kernel size 1 is a weight and a bias.
ZeroProj(w) == [w EXCEPT !.proj_mw = 0, !.proj_mb = 0, !.proj_sw = 0, !.proj_sb = 0]

\* the values the optimizer may leave in a layer's parameters
Weights ==
    { [input_w |-> 1, input_b |-> 0, proj_mw |-> 1, proj_mb |-> 1,
       proj_sw |-> 1, proj_sb |-> 0, tr_w |-> 1, tr_b |-> 1],
      [input_w |-> 1, input_b |-> 1, proj_mw |-> 2, proj_mb |-> 0,
       proj_sw |-> 0, proj_sb |-> 1, tr_w |-> 0, tr_b |-> 0] }

\* ---------------------------------------------------------------- sub-networks
\* torch.nn.Conv1d(half_channels, hidden_channels, 1): pointwise in time
input_conv(p, xa) ==
    Computed([t \in 1..TimeOf(xa) |->
                 Plus(Scaled(SumSeq([c \in 1..Len(xa) |-> xa[c][t]]), p.input_w),
                      Num(p.input_b))])

\* the saturating gated activation of the WaveNet, with values 0..1
Gate(v) == IF v.n <= 0 THEN Num(0) ELSE Num(1)

\* WaveNet encoder: a masked convolution over neighbouring frames with the
\* global conditioning added, gated, and masked again
WaveNet(h, x_mask, g) ==
    LET T == Len(h)
        at(t) == IF t < 1 \/ t > T THEN Num(0) ELSE Scaled(h[t], x_mask[t])
    IN Computed([t \in 1..T |->
           Scaled(Gate(Plus(Plus(at(t - 1), at(t)), Plus(at(t + 1), GlobalOf(g)))),
                  x_mask[t])])

\* Transformer(x, key_padding_mask): attends over the frames the boolean mask
\* selects; its final normalisation adds a bias at every frame, padded or not
Transformer(p, x, transformer_mask) ==
    ComputedTensor([c \in 1..Len(x) |-> [t \in 1..Len(x[c]) |->
        Plus(Scaled(SumSeq([u \in 1..Len(x[c]) |->
                               IF transformer_mask[u] THEN x[c][u] ELSE Num(0)]),
                    p.tr_w),
             Num(p.tr_b))]])

\* torch.nn.Conv1d(hidden_channels, half_channels [* 2], 1): the mean channels
\* and, unless use_only_mean, the log-scale channels after them
proj(self, h) ==
    LET mean == [c \in 1..self.half_channels |->
                    [t \in 1..Len(h) |->
                        Plus(Scaled(h[t], self.p.proj_mw), Num(self.p.proj_mb))]]
        logscale == [c \in 1..self.half_channels |->
                    [t \in 1..Len(h) |->
                        Plus(Scaled(h[t], self.p.proj_sw), Num(self.p.proj_sb))]]
    IN ComputedTensor(IF self.use_only_mean THEN mean ELSE Cat(mean, logscale))

\* h * x_mask for a hidden representation of one channel
MaskedHidden(h, x_mask) == Computed([t \in 1..Len(h) |-> Scaled(h[t], x_mask[t])])

\* torch.zeros_like(m)
ZerosLike(m) == [c \in 1..Len(m) |-> [t \in 1..Len(m[c]) |-> Num(0)]]

\* what a call returns: the tensor, and the log-determinant <<v>> when the
\* call returns one (inverse=False) or <<>> when it does not
Returned(x, logdet) == [x |-> ComputedTensor(x), logdet |-> logdet]

\* ---------------------------------------------------------------- modules
NoModule ==
    [cls |-> "none", status |-> "none", in_channels |-> 0, half_channels |-> 0,
     use_only_mean |-> TRUE, use_post_transformer |-> FALSE,
     p |-> ZeroProj(CHOOSE w \in Weights : TRUE), flows |-> <<>>,
     \* bookkeeping: the arguments flows and use_transformer_flows that the
     \* constructor of a block was given (the object does not keep them)
     args |-> [flows |-> 0, use_transformer_flows |-> FALSE]]

\* a constructor that raised: no object exists
Raised(cls, error, in_channels) ==
    [NoModule EXCEPT !.cls = cls, !.status = error, !.in_channels = in_channels]

FlipFlow == [NoModule EXCEPT !.cls = "FlipFlow", !.status = "ok"]

\* FlipFlow.forward: reverse the channel order; logdet 0 unless inverse
FlipFlow_forward(x, x_mask, inverse) ==
    LET flipped == [c \in 1..Len(x) |-> x[Len(x) + 1 - c]]
    IN Returned(flipped, IF inverse THEN <<>> ELSE <<Num(0)>>)

\* faulty variant: the constructor does not check that in_channels is even
ResidualAffineCouplingLayer_init_Unchecked(in_channels, use_only_mean, w) ==
    [cls |-> "ResidualAffineCouplingLayer", status |-> "ok",
     in_channels |-> in_channels, half_channels |-> in_channels \div 2,
     use_only_mean |-> use_only_mean, use_post_transformer |-> FALSE,
     p |-> ZeroProj(w), flows |-> <<>>, args |-> NoModule.args]

ResidualAffineCouplingLayer_init(in_channels, use_only_mean, w) ==
    IF in_channels % 2 # 0
    THEN Raised("ResidualAffineCouplingLayer", "AssertionError", in_channels)
    ELSE [cls |-> "ResidualAffineCouplingLayer", status |-> "ok",
          in_channels |-> in_channels, half_channels |-> in_channels \div 2,
          use_only_mean |-> use_only_mean, use_post_transformer |-> FALSE,
          p |-> ZeroProj(w), flows |-> <<>>, args |-> NoModule.args]

\* m, logs of ResidualAffineCouplingLayer.forward: use_only_mean decides
\* whether the projection carries log-scales
AffineMean(self, stats) ==
    IF ~self.use_only_mean THEN SplitA(stats, Len(stats) \div 2) ELSE stats

AffineLogs(self, stats) ==
    IF ~self.use_only_mean THEN SplitB(stats, Len(stats) \div 2)
    ELSE ZerosLike(stats)

\* faulty variant: the inverse branch does not take the mean off
AffineUpdate_InverseKeepsMean(xa, xb, m, logs, x_mask, inverse) ==
    IF ~inverse
    THEN Returned(
           Cat(xa, [c \in 1..Len(xb) |-> [t \in 1..Len(xb[c]) |->
                     Plus(m[c][t],
                          Scaled(MulExp(xb[c][t], logs[c][t]), x_mask[t]))]]),
           <<SumAll(logs)>>)
    ELSE Returned(
           Cat(xa, [c \in 1..Len(xb) |-> [t \in 1..Len(xb[c]) |->
                     Scaled(MulExp(xb[c][t], Minus(Num(0), logs[c][t])), x_mask[t])]]),
           <<>>)

\* faulty variant: the forward branch does not mask the scaled half
AffineUpdate_ForwardUnmasked(xa, xb, m, logs, x_mask, inverse) ==
    IF ~inverse
    THEN Returned(
           Cat(xa, [c \in 1..Len(xb) |-> [t \in 1..Len(xb[c]) |->
                     Plus(m[c][t], MulExp(xb[c][t], logs[c][t]))]]),
           <<SumAll(logs)>>)
    ELSE Returned(
           Cat(xa, [c \in 1..Len(xb) |-> [t \in 1..Len(xb[c]) |->
                     Scaled(MulExp(Minus(xb[c][t], m[c][t]), Minus(Num(0), logs[c][t])),
                            x_mask[t])]]),
           <<>>)

\* the affine update of ResidualAffineCouplingLayer.forward and what it returns
AffineUpdate(xa, xb, m, logs, x_mask, inverse) ==
    IF ~inverse
    THEN Returned(
           Cat(xa, [c \in 1..Len(xb) |-> [t \in 1..Len(xb[c]) |->
                     Plus(m[c][t],
                          Scaled(MulExp(xb[c][t], logs[c][t]), x_mask[t]))]]),
           <<SumAll(logs)>>)
    ELSE Returned(
           Cat(xa, [c \in 1..Len(xb) |-> [t \in 1..Len(xb[c]) |->
                     Scaled(MulExp(Minus(xb[c][t], m[c][t]), Minus(Num(0), logs[c][t])),
                            x_mask[t])]]),
           <<>>)

\* self.proj(h) of ResidualAffineCouplingLayer.forward: input_conv, encoder, proj
AffineProj(self, xa, x_mask, g) ==
    proj(self, WaveNet(MaskedHidden(input_conv(self.p, xa), x_mask), x_mask, g))

\* stats = self.proj(h) * x_mask
AffineStats(self, xa, x_mask, g) == Masked(AffineProj(self, xa, x_mask, g), x_mask)

\* ResidualAffineCouplingLayer.forward from the split on
AffineFromStats(self, xa, xb, stats, x_mask, inverse) ==
    AffineUpdate(xa, xb, AffineMean(self, stats), AffineLogs(self, stats),
                 x_mask, inverse)

AffineFromSplit(self, xa, xb, x_mask, g, inverse) ==
    AffineFromStats(self, xa, xb, AffineStats(self, xa, x_mask, g), x_mask, inverse)

ResidualAffineCouplingLayer_forward(self, x, x_mask, g, inverse) ==
    AffineFromSplit(self, SplitA(x, Len(x) \div 2), SplitB(x, Len(x) \div 2),
                    x_mask, g, inverse)

ResidualCouplingTransformersLayer_init(in_channels, use_only_mean, use_post_transformer, w) ==
    IF in_channels % 2 # 0
    THEN Raised("ResidualCouplingTransformersLayer", "AssertionError", in_channels)
    ELSE [cls |-> "ResidualCouplingTransformersLayer", status |-> "ok",
          in_channels |-> in_channels, half_channels |-> in_channels \div 2,
          use_only_mean |-> use_only_mean,
          use_post_transformer |-> use_post_transformer,
          p |-> ZeroProj(w), flows |-> <<>>, args |-> NoModule.args]

\* A tensor with its shape, as torch keeps it: the sizes of its dimensions and
\* its elements in row-major order.  A tensor of shape () has one element.
ShapedTensor(shape, data) == [shape |-> shape, data |-> data]

\* torch.squeeze(t) without a dim argument: every dimension of size 1 goes
Squeeze(t) == ShapedTensor(SelectSeq(t.shape, LAMBDA d : d # 1), t.data)

\* torch.where(t > 0, True, False): elementwise, the shape stays
WherePositive(t) == ShapedTensor(t.shape, [i \in 1..Len(t.data) |-> t.data[i] > 0])

\* transformer_mask = torch.where(torch.squeeze(x_mask) > 0, True, False)
\* for x_mask of shape (B, 1, T)
transformer_mask(mask) == WherePositive(Squeeze(mask))

\* transformer_mask for the one batch element the coupling model follows:
\* x_mask is its row of the mask, of shape (1, 1, T)
TransformerMask(x_mask) ==
    transformer_mask(ShapedTensor(<<1, 1, Len(x_mask)>>, x_mask)).data

\* xa = xa + xa_trans
TransformersXa(self, xa, x_mask) ==
    Add(xa, Transformer(self.p, xa, TransformerMask(x_mask)))

\* h after the optional post transformer
TransformersPost(self, h, x_mask) ==
    IF self.use_post_transformer
    THEN Add(<<h>>, Transformer(self.p, <<h>>, TransformerMask(x_mask)))[1]
    ELSE h

\* self.proj(h) of ResidualCouplingTransformersLayer.forward
TransformersProj(self, xa, x_mask, g) ==
    proj(self, TransformersPost(self,
                   WaveNet(MaskedHidden(input_conv(self.p, xa), x_mask), x_mask, g),
                   x_mask))

\* stats = self.proj(h) * x_mask
TransformersStats(self, xa, x_mask, g) ==
    Masked(TransformersProj(self, xa, x_mask, g), x_mask)

TransformersMean(self, stats) ==
    IF ~self.use_only_mean THEN SplitA(stats, Len(stats) \div 2) ELSE stats

TransformersLogs(self, stats) ==
    IF ~self.use_only_mean THEN SplitB(stats, Len(stats) \div 2)
    ELSE ZerosLike(stats)

\* the affine update of ResidualCouplingTransformersLayer.forward
TransformersUpdate(xa, xb, m, logs, x_mask, inverse) ==
    IF ~inverse
    THEN Returned(
           Cat(xa, [c \in 1..Len(xb) |-> [t \in 1..Len(xb[c]) |->
                     Plus(m[c][t],
                          Scaled(MulExp(xb[c][t], logs[c][t]), x_mask[t]))]]),
           <<SumAll(logs)>>)
    ELSE Returned(
           Cat(xa, [c \in 1..Len(xb) |-> [t \in 1..Len(xb[c]) |->
                     Scaled(MulExp(Minus(xb[c][t], m[c][t]), Minus(Num(0), logs[c][t])),
                            x_mask[t])]]),
           <<>>)

\* ResidualCouplingTransformersLayer.forward from xa = xa + xa_trans on
TransformersFromStats(self, xa, xb, stats, x_mask, inverse) ==
    TransformersUpdate(xa, xb, TransformersMean(self, stats),
                       TransformersLogs(self, stats), x_mask, inverse)

TransformersFromXa(self, xa, xb, x_mask, g, inverse) ==
    TransformersFromStats(self, xa, xb, TransformersStats(self, xa, x_mask, g),
                          x_mask, inverse)

ResidualCouplingTransformersLayer_forward(self, x, x_mask, g, inverse) ==
    TransformersFromXa(self,
                       TransformersXa(self, SplitA(x, Len(x) \div 2), x_mask),
                       SplitB(x, Len(x) \div 2), x_mask, g, inverse)

\* faulty variant: the loop appends the coupling layers without the FlipFlows
RECURSIVE BlockStages_NoFlip(_, _, _, _, _, _, _)
BlockStages_NoFlip(i, flows, in_channels, use_only_mean, use_post_transformer, use_transformer_flows, ws) ==
    IF i > flows THEN <<>>
    ELSE LET layer ==
                 IF ~use_transformer_flows
                 THEN ResidualAffineCouplingLayer_init(in_channels, use_only_mean, ws[i])
                 ELSE ResidualCouplingTransformersLayer_init(
                          in_channels, use_only_mean, use_post_transformer, ws[i])
         IN <<layer>>
            \o BlockStages_NoFlip(i + 1, flows, in_channels, use_only_mean,
                                  use_post_transformer, use_transformer_flows, ws)

\* faulty variant: the loop builds affine layers whatever use_transformer_flows is
RECURSIVE BlockStages_AlwaysAffine(_, _, _, _, _, _, _)
BlockStages_AlwaysAffine(i, flows, in_channels, use_only_mean, use_post_transformer, use_transformer_flows, ws) ==
    IF i > flows THEN <<>>
    ELSE <<ResidualAffineCouplingLayer_init(in_channels, use_only_mean, ws[i]),
           FlipFlow>>
         \o BlockStages_AlwaysAffine(i + 1, flows, in_channels, use_only_mean,
                                     use_post_transformer, use_transformer_flows, ws)

\* the stages ResidualCouplingBlock.__init__ appends in its loop, for the
\* iterations i..flows: a coupling layer, then a FlipFlow
RECURSIVE BlockStages(_, _, _, _, _, _, _)
BlockStages(i, flows, in_channels, use_only_mean, use_post_transformer, use_transformer_flows, ws) ==
    IF i > flows THEN <<>>
    ELSE LET layer ==
                 IF ~use_transformer_flows
                 THEN ResidualAffineCouplingLayer_init(in_channels, use_only_mean, ws[i])
                 ELSE ResidualCouplingTransformersLayer_init(
                          in_channels, use_only_mean, use_post_transformer, ws[i])
         IN <<layer, FlipFlow>>
            \o BlockStages(i + 1, flows, in_channels, use_only_mean,
                           use_post_transformer, use_transformer_flows, ws)

ResidualCouplingBlock_init(in_channels, flows, use_only_mean, use_post_transformer, use_transformer_flows, ws) ==
    LET stages == BlockStages(1, flows, in_channels, use_only_mean,
                              use_post_transformer, use_transformer_flows, ws)
    IN IF \E i \in 1..Len(stages) : stages[i].status # "ok"
       THEN Raised("ResidualCouplingBlock", "AssertionError", in_channels)
       ELSE [cls |-> "ResidualCouplingBlock", status |-> "ok",
             in_channels |-> in_channels, half_channels |-> 0,
             use_only_mean |-> NoModule.use_only_mean,
             use_post_transformer |-> NoModule.use_post_transformer,
             p |-> NoModule.p, flows |-> stages,
             args |-> [flows |-> flows,
                       use_transformer_flows |-> use_transformer_flows]]

\* flow(x, x_mask, g=g, inverse=inverse) for one stage of a block
StageCall(flow, x, x_mask, g, inverse) ==
    CASE flow.cls = "ResidualAffineCouplingLayer" ->
             ResidualAffineCouplingLayer_forward(flow, x, x_mask, g, inverse)
      [] flow.cls = "ResidualCouplingTransformersLayer" ->
             ResidualCouplingTransformersLayer_forward(flow, x, x_mask, g, inverse)
      [] flow.cls = "FlipFlow" -> FlipFlow_forward(x, x_mask, inverse)

Reversed(s) == [i \in 1..Len(s) |-> s[Len(s) + 1 - i]]

\* One iteration of the loop of ResidualCouplingBlock.forward: x becomes what
\* the stage returned (r).  st.perm and st.trace are bookkeeping: perm[c] is
\* the input channel whose data sits in channel c (a FlipFlow moves the
\* channels, a coupling layer leaves them in place), and trace lists the
\* stages applied with what each was given and returned.
BlockStep(st, index, flow, r, inverse) ==
    [x |-> r.x,
     perm |-> IF flow.cls = "FlipFlow" THEN Reversed(st.perm) ELSE st.perm,
     trace |-> Append(st.trace,
                  [index |-> index, cls |-> flow.cls, inverse |-> inverse,
                   x_in |-> st.x, x_out |-> r.x, perm |-> st.perm])]

\* the loop of ResidualCouplingBlock.forward over the stages `order` (indices
\* into self.flows)
RECURSIVE BlockLoop(_, _, _, _, _, _)
BlockLoop(self, order, st, x_mask, g, inverse) ==
    IF order = <<>> THEN st
    ELSE BlockLoop(self, Tail(order),
                   BlockStep(st, Head(order), self.flows[Head(order)],
                             StageCall(self.flows[Head(order)], st.x, x_mask, g,
                                       inverse),
                             inverse),
                   x_mask, g, inverse)

\* faulty variant: the inverse direction visits the stages in list order too
BlockOrder_ListOrderAlways(self, inverse) == [i \in 1..Len(self.flows) |-> i]

\* the order in which ResidualCouplingBlock.forward visits self.flows
BlockOrder(self, inverse) ==
    IF ~inverse THEN [i \in 1..Len(self.flows) |-> i]
    ELSE Reversed([i \in 1..Len(self.flows) |-> i])

ResidualCouplingBlock_forward(self, x, x_mask, g, inverse) ==
    BlockLoop(self, BlockOrder(self, inverse),
              [x |-> x, perm |-> [c \in 1..Len(x) |-> c], trace |-> <<>>],
              x_mask, g, inverse)

\* ---------------------------------------------------------------- duration predictor
\* The conditioning input x (B, channels, T) is modelled with one channel, as a
\* sequence over time.  w is None (<<>>) or a tensor (B, 1, T), <<row>>.
\* Scalars of the likelihood carry a factor 0.5 in the source; the model keeps
\* them doubled (nll2 = 2 * nll).

\* math.log(2 * math.pi)
Log2Pi == Term("math.log", <<Term("*", <<Num(2), Term("math.pi", <<>>)>>)>>)

\* the parameters of one flow stage: the shift and log-scale per channel of an
\* ElementwiseAffineFlow, the weight and log-slope of a ConvFlow
SDPWeights ==
    { [m |-> <<0, 0>>, logs |-> <<0, 0>>, w |-> 1, s |-> 0],
      [m |-> <<1, 0>>, logs |-> <<1, 0>>, w |-> 1, s |-> 1] }

InitialSDPWeights == [m |-> <<0, 0>>, logs |-> <<0, 0>>, w |-> 1, s |-> 0]

Stage(cls, w) == [cls |-> cls, p |-> w]

\* the loop of StochasticDurationPredictor.__init__ that appends, for each of
\* the iterations i..flows, a ConvFlow and then a FlipFlow
RECURSIVE SDPStages(_, _, _)
SDPStages(i, flows, w) ==
    IF i > flows THEN <<>>
    ELSE <<Stage("ConvFlow", w), Stage("FlipFlow", w)>> \o SDPStages(i + 1, flows, w)

\* global_conv: whether the object has the attribute self.global_conv
NoSDP == [cls |-> "none", flows |-> <<>>, post_flows |-> <<>>, global_conv |-> FALSE]

StochasticDurationPredictor_init(flows, global_channels, w) ==
    [cls |-> "StochasticDurationPredictor",
     flows |-> <<Stage("ElementwiseAffineFlow", w)>> \o SDPStages(1, flows, w),
     post_flows |-> <<Stage("ElementwiseAffineFlow", w)>> \o SDPStages(1, flows, w),
     global_conv |-> global_channels > 0]

\* ElementwiseAffineFlow.forward
ElementwiseAffineFlow_forward(self, z, z_mask, inverse) ==
    IF ~inverse
    THEN Returned(
           [c \in 1..Len(z) |-> [t \in 1..Len(z[c]) |->
               Scaled(Plus(Num(self.p.m[c]), MulExp(z[c][t], Num(self.p.logs[c]))),
                      z_mask[t])]],
           <<Nats(SumAll([c \in 1..Len(z) |-> [t \in 1..Len(z[c]) |->
                             Num(self.p.logs[c] * z_mask[t])]]))>>)
    ELSE Returned(
           [c \in 1..Len(z) |-> [t \in 1..Len(z[c]) |->
               Scaled(MulExp(Minus(z[c][t], Num(self.p.m[c])),
                             Num(-self.p.logs[c])),
                      z_mask[t])]],
           <<>>)

\* ConvFlow.forward: the second channel goes through a monotonic transform
\* whose parameters come from the first channel and the conditioning (cond, a
\* sequence over time); the result is masked
ConvFlow_forward(self, z, z_mask, cond, inverse) ==
    IF ~inverse
    THEN Returned(
           <<[t \in 1..Len(z[1]) |-> Scaled(z[1][t], z_mask[t])],
             [t \in 1..Len(z[2]) |->
                Scaled(Plus(MulExp(z[2][t], Num(self.p.s)),
                            Scaled(Plus(Scaled(z[1][t], self.p.w), cond[t]),
                                   z_mask[t])),
                       z_mask[t])]>>,
           <<Nats(SumSeq([t \in 1..Len(z[2]) |-> Num(self.p.s * z_mask[t])]))>>)
    ELSE Returned(
           <<[t \in 1..Len(z[1]) |-> Scaled(z[1][t], z_mask[t])],
             [t \in 1..Len(z[2]) |->
                Scaled(MulExp(Minus(z[2][t],
                                    Scaled(Plus(Scaled(z[1][t], self.p.w), cond[t]),
                                           z_mask[t])),
                              Num(-self.p.s)),
                       z_mask[t])]>>,
           <<>>)

\* log(clamp(v, min=eps)), the natural logarithm
Log(v) == Term("torch.log", <<Term("torch.clamp_min", <<v, Term("eps", <<>>)>>)>>)

\* LogFlow.forward (the forward direction is the only one used)
LogFlow_forward(z, z_mask) ==
    Returned([c \in 1..Len(z) |-> [t \in 1..Len(z[c]) |->
                 Scaled(Log(z[c][t]), z_mask[t])]],
             <<Minus(Num(0),
                     SumAll([c \in 1..Len(z) |-> [t \in 1..Len(z[c]) |->
                                Scaled(Log(z[c][t]), z_mask[t])]]))>>)

\* torch.sigmoid and F.logsigmoid
Sigmoid(v) == Term("torch.sigmoid", <<v>>)
LogSigmoid(v) == Term("F.logsigmoid", <<v>>)

\* flow(z, x_mask, g=cond, inverse=inverse) for one stage of the predictor
SDPStageCall(flow, z, z_mask, cond, inverse) ==
    CASE flow.cls = "ElementwiseAffineFlow" ->
             ElementwiseAffineFlow_forward(flow, z, z_mask, inverse)
      [] flow.cls = "ConvFlow" -> ConvFlow_forward(flow, z, z_mask, cond, inverse)
      [] flow.cls = "FlipFlow" -> FlipFlow_forward(z, z_mask, inverse)

\* x = self.proj(self.dds(self.pre(x) [+ self.global_conv(g)], x_mask)) * x_mask
\* or, when g is given to an object without self.global_conv, the error raised
SDPFeatures(self, xc, z_mask, gc) ==
    IF gc # <<>> /\ ~self.global_conv
    THEN [status |-> "AttributeError", x |-> <<>>]
    ELSE [status |-> "ok",
          x |-> Computed([t \in 1..Len(xc) |->
                             Scaled(Plus(xc[t], GlobalOf(gc)), z_mask[t])])]

\* h_w = self.post_proj(self.post_dds(self.post_pre(w), x_mask)) * x_mask
SDPDurationFeatures(w, z_mask) ==
    [t \in 1..Len(z_mask) |-> Scaled(w[1][t], z_mask[t])]

\* faulty variant: the stage's logdet replaces the total instead of being added to it
SDPStep_Overwrites(st, index, flow, r, inverse) ==
    [z |-> r.x,
     logdet_tot |-> IF inverse THEN st.logdet_tot ELSE r.logdet[1],
     trace |-> Append(st.trace,
                  [index |-> index, cls |-> flow.cls, inverse |-> inverse,
                   logdet |-> r.logdet, x_in |-> st.z, x_out |-> r.x])]

\* One iteration of a loop over flow stages: z becomes what the stage
\* returned (r) and, in likelihood mode, its logdet is added to the total.
\* st.trace lists the stages applied, for the record.
SDPStep(st, index, flow, r, inverse) ==
    [z |-> r.x,
     logdet_tot |-> IF inverse THEN st.logdet_tot
                    ELSE Plus(st.logdet_tot, r.logdet[1]),
     trace |-> Append(st.trace,
                  [index |-> index, cls |-> flow.cls, inverse |-> inverse,
                   logdet |-> r.logdet, x_in |-> st.z, x_out |-> r.x])]

\* a loop `for flow in ...` over the stages `order` (indices into stages)
RECURSIVE SDPLoop(_, _, _, _, _, _)
SDPLoop(stages, order, st, z_mask, cond, inverse) ==
    IF order = <<>> THEN st
    ELSE SDPLoop(stages, Tail(order),
                 SDPStep(st, Head(order), stages[Head(order)],
                         SDPStageCall(stages[Head(order)], st.z, z_mask, cond,
                                      inverse),
                         inverse),
                 z_mask, cond, inverse)

Indices(stages) == [i \in 1..Len(stages) |-> i]

\* python's s[:-2] + [s[-1]]
DropNextToLast(s) ==
    (IF Len(s) >= 2 THEN SubSeq(s, 1, Len(s) - 2) ELSE <<>>) \o <<s[Len(s)]>>

\* faulty variant: sampling runs the whole reversed chain
SamplingOrder_FullReverse(self) == Reversed(Indices(self.flows))

\* faulty variant: the slice drops the last stage of the reversed chain
SamplingOrder_DropsLast(self) ==
    SubSeq(Reversed(Indices(self.flows)), 1, Len(self.flows) - 1)

\* flows = list(reversed(self.flows)); flows = flows[:-2] + [flows[-1]]
SamplingOrder(self) == DropNextToLast(Reversed(Indices(self.flows)))

\* 2 * torch.sum(0.5 * (math.log(2 * math.pi) + z**2) * x_mask, [1, 2])
Energy2(z, z_mask) ==
    SumAll([c \in 1..Len(z) |-> [t \in 1..Len(z[c]) |->
               Scaled(Plus(Log2Pi, Times(z[c][t], z[c][t])), z_mask[t])]])

\* torch.sum((F.logsigmoid(z_u) + F.logsigmoid(-z_u)) * x_mask, [1, 2])
Dequantization(z_u, z_mask) ==
    SumSeq([t \in 1..Len(z_u) |->
               Scaled(Plus(LogSigmoid(z_u[t]), LogSigmoid(Minus(Num(0), z_u[t]))),
                      z_mask[t])])

\* z0 = (w - u) * x_mask with u = torch.sigmoid(z_u) * x_mask
DequantizedDuration(w, z_u, z_mask) ==
    [t \in 1..Len(z_u) |->
        Scaled(Minus(IF w = <<>> THEN Num(1) ELSE w[1][t],
                     Scaled(Sigmoid(z_u[t]), z_mask[t])),
               z_mask[t])]

NoResult ==
    [status |-> "none", inverse |-> FALSE, w |-> <<>>, noise |-> <<>>,
     value2 |-> <<>>, logw |-> <<>>, logdet_tot |-> Num(0),
     logdet_tot_q |-> Num(0),
     logdet_log_flow |-> <<>>, z_q |-> <<>>, z |-> <<>>,
     post_trace |-> <<>>, trace |-> <<>>,
     \* bookkeeping of a sampling call: what torch.randn drew and the
     \* noise_scale argument
     drawn |-> <<>>, noise_scale |-> 1]

\* likelihood mode from the main chain on: q is the finished posterior loop,
\* lf what self.log_flow returned, main the finished main loop
LikelihoodReturn(w, e_q, z_mask, q, lf, main) ==
    [NoResult EXCEPT
       !.status = "ok", !.w = w, !.noise = e_q,
       !.logdet_tot_q = Plus(q.logdet_tot, Dequantization(q.z[1], z_mask)),
       !.logdet_log_flow = lf.logdet,
       !.logdet_tot = main.logdet_tot,
       !.z_q = q.z, !.z = main.z,
       !.post_trace = q.trace, !.trace = main.trace,
       !.value2 =
           <<Plus(Minus(Energy2(main.z, z_mask), Scaled(main.logdet_tot, 2)),
                  Minus(Minus(Num(0), Energy2(e_q, z_mask)),
                        Scaled(Plus(q.logdet_tot,
                                    Dequantization(q.z[1], z_mask)), 2)))>>]

LikelihoodMain(self, w, e_q, z_mask, feat, q, lf) ==
    LikelihoodReturn(w, e_q, z_mask, q, lf,
        SDPLoop(self.flows, Indices(self.flows),
                [z |-> Cat(lf.x, <<q.z[2]>>),
                 logdet_tot |-> Plus(Num(0), lf.logdet[1]),
                 trace |-> <<>>],
                z_mask, feat, FALSE))

LikelihoodPosterior(self, w, e_q, z_mask, feat, q) ==
    LikelihoodMain(self, w, e_q, z_mask, feat, q,
        LogFlow_forward(<<DequantizedDuration(w, q.z[1], z_mask)>>, z_mask))

\* sampling mode: logw is the first channel of what the loop leaves
SamplingReturn(w, noise, st) ==
    [NoResult EXCEPT !.status = "ok", !.inverse = TRUE, !.w = w, !.noise = noise,
                     !.z = st.z, !.trace = st.trace, !.logw = <<st.z[1]>>]

\* the noise drawn, times noise_scale
ScaledNoise(noise, noise_scale) ==
    ComputedTensor([c \in 1..Len(noise) |-> [t \in 1..Len(noise[c]) |->
                       Scaled(noise[c][t], noise_scale)]])

\* the sampling branch of forward, from flows = list(reversed(self.flows)) on
SamplingCall(self, feat, z_mask, w, noise_scale, noise) ==
    [SamplingReturn(w, ScaledNoise(noise, noise_scale),
         SDPLoop(self.flows, SamplingOrder(self),
                 [z |-> ScaledNoise(noise, noise_scale),
                  logdet_tot |-> Num(0), trace |-> <<>>],
                 z_mask, feat, TRUE))
      EXCEPT !.drawn = noise, !.noise_scale = noise_scale]

\* the likelihood branch of forward, from h_w = self.post_pre(w) on
LikelihoodCall(self, feat, z_mask, w, noise) ==
    LikelihoodPosterior(self, w, Masked(noise, z_mask), z_mask, feat,
        SDPLoop(self.post_flows, Indices(self.post_flows),
                [z |-> Masked(noise, z_mask), logdet_tot |-> Num(0),
                 trace |-> <<>>],
                z_mask,
                [t \in 1..Len(z_mask) |->
                    Plus(feat[t], SDPDurationFeatures(w, z_mask)[t])],
                FALSE))

\* faulty variant: a missing w is taken to be a tensor of ones
LikelihoodCall_Unchecked(self, feat, z_mask, w, noise) ==
    LikelihoodPosterior(self, w, Masked(noise, z_mask), z_mask, feat,
        SDPLoop(self.post_flows, Indices(self.post_flows),
                [z |-> Masked(noise, z_mask), logdet_tot |-> Num(0),
                 trace |-> <<>>],
                z_mask,
                [t \in 1..Len(z_mask) |->
                    Plus(feat[t],
                         Scaled(IF w = <<>> THEN Num(1) ELSE w[1][t], z_mask[t]))],
                FALSE))

\* forward raised: nothing is returned
ForwardRaised(error, w, inverse) ==
    [NoResult EXCEPT !.status = error, !.w = w, !.inverse = inverse]

\* faulty variant: forward does not refuse a missing w
ForwardFromFeatures_Unchecked(self, feat, z_mask, w, inverse, noise_scale, noise) ==
    IF feat.status # "ok" THEN ForwardRaised(feat.status, w, inverse)
    ELSE IF ~inverse
    THEN LikelihoodCall_Unchecked(self, feat.x, z_mask, w, noise)
    ELSE SamplingCall(self, feat.x, z_mask, w, noise_scale, noise)

\* forward from `if not inverse:` on; feat is what the lines before it made
\* of x and g
ForwardFromFeatures(self, feat, z_mask, w, inverse, noise_scale, noise) ==
    IF feat.status # "ok" THEN ForwardRaised(feat.status, w, inverse)
    ELSE IF ~inverse
    THEN IF w = <<>>
         THEN ForwardRaised("AssertionError", w, inverse)
         ELSE LikelihoodCall(self, feat.x, z_mask, w, noise)
    ELSE SamplingCall(self, feat.x, z_mask, w, noise_scale, noise)

\* faulty variant: a missing w is taken to be a tensor of ones instead of being refused
StochasticDurationPredictor_forward_Unchecked(self, xc, z_mask, w, gc, inverse, noise_scale, noise) ==
    ForwardFromFeatures_Unchecked(self, SDPFeatures(self, xc, z_mask, gc), z_mask,
                                  w, inverse, noise_scale, noise)

\* StochasticDurationPredictor.forward; noise is what torch.randn draws
StochasticDurationPredictor_forward(self, xc, z_mask, w, gc, inverse, noise_scale, noise) ==
    ForwardFromFeatures(self, SDPFeatures(self, xc, z_mask, gc), z_mask,
                        w, inverse, noise_scale, noise)

\* ---------------------------------------------------------------- feature extraction
\* compute_fbank_ljspeech.py.  A recording is a number; the recordings manifest
\* is a sequence of recordings.  data/fbank holds the cuts manifest (cuts,
\* <<>> while the file is not there) and the feature storage (feats, the
\* features stored per recording).

EmptyDir == [cuts |-> <<>>, feats |-> <<>>]

\* the Fbank extractor applied to one recording
Fbank(recording) == 2 * recording + 1

\* faulty variant: the cuts manifest is never found
is_file_Never(dir) == FALSE

\* (output_dir / cuts_filename).is_file()
is_file(dir) == dir.cuts # <<>>

\* CutSet.from_manifests(recordings=..., supervisions=...).resample(...):
\* one cut per recording, without features yet
from_manifests(recordings) ==
    [i \in 1..Len(recordings) |-> [recording |-> recordings[i], features |-> 0]]

\* one cut of compute_and_store_features: its features are computed and
\* stored under storage_path, after those stored before it
store_features(dir, cut) ==
    [dir EXCEPT !.feats =
        Append(SelectSeq(dir.feats, LAMBDA f : f.recording # cut.recording),
               [recording |-> cut.recording, features |-> Fbank(cut.recording)])]

\* the cut that compute_and_store_features returns refers to its features
with_features(cut) == [cut EXCEPT !.features = Fbank(cut.recording)]

\* cut_set.to_file(output_dir / cuts_filename)
to_file(dir, cut_set) == [dir EXCEPT !.cuts = <<cut_set>>]

\* no process is running.  pc is the position of the process; recordings and
\* cut_set are its local variables and done the number of cuts of cut_set
\* that compute_and_store_features has finished; the other fields are the
\* record of the run: whether the cuts manifest has been looked for and was
\* there, the recordings whose features were computed, the files written in
\* order, the messages logged, data/fbank as it was when the run began.
NoRun ==
    [pc |-> "none", recordings |-> <<>>, cut_set |-> <<>>, done |-> 0,
     looked |-> FALSE, existed |-> FALSE, computed |-> <<>>, writes |-> <<>>,
     log |-> <<>>, before |-> EmptyDir]

\* the record kept of a run that ended
Ended(r, outcome, dir) ==
    [outcome |-> outcome, looked |-> r.looked, existed |-> r.existed,
     recordings |-> r.recordings, computed |-> r.computed, writes |-> r.writes,
     log |-> r.log, before |-> r.before, after |-> dir]

\* ---------------------------------------------------------------- state
VARIABLES
    module,   \* the coupling layer or block under construction or in use
    x,        \* the tensor the caller holds (<<>>: none yet)
    x_mask,   \* its mask
    g,        \* its global conditioning
    hist,     \* the calls made on it so far, oldest first
    sdp,      \* the stochastic duration predictor
    sdp_x,    \* the conditioning input its caller holds (<<>>: none yet)
    sdp_mask, \* its mask
    sdp_g,    \* its global conditioning
    result,   \* what the call of the predictor returned or raised
    batch_mask,  \* a batched x_mask (B, 1, T) given to a transformers layer
    padding_mask, \* the transformer_mask the layer made of it
    src_dir,     \* data/manifests: the recordings manifest (<<>>: not there)
    output_dir,  \* data/fbank: the cuts manifest and the stored features
    run,         \* the running compute_spectrogram_ljspeech process
    runs         \* the runs that have ended, oldest first

coupling_vars == <<module, x, x_mask, g, hist>>
sdp_vars == <<sdp, sdp_x, sdp_mask, sdp_g, result>>
mask_vars == <<batch_mask, padding_mask>>
fbank_vars == <<src_dir, output_dir, run, runs>>
vars == <<module, x, x_mask, g, hist, sdp, sdp_x, sdp_mask, sdp_g, result,
          batch_mask, padding_mask, src_dir, output_dir, run, runs>>

\* no tensor yet
NoTensor == ShapedTensor(<<>>, <<>>)

Bool == {TRUE, FALSE}

\* the caller keeps what the call returned (r) and the call is recorded
Called(inverse, r, logdet, trace) ==
    /\ x' = r.x
    /\ hist' = Append(hist, [inverse |-> inverse, x_in |-> x, x_out |-> r.x,
                             logdet |-> logdet, trace |-> trace])

\* a coupling layer returns (x, logdet) or x
LayerCalled(inverse, r) == Called(inverse, r, r.logdet, <<>>)

\* the block returns x alone, in both directions
BlockCalled(inverse, r) == Called(inverse, r, <<>>, r.trace)

Init ==
    /\ module = NoModule
    /\ x = <<>>
    /\ x_mask = <<>>
    /\ g = <<>>
    /\ hist = <<>>
    /\ sdp = NoSDP
    /\ sdp_x = <<>>
    /\ sdp_mask = <<>>
    /\ sdp_g = <<>>
    /\ result = NoResult
    /\ batch_mask = NoTensor
    /\ padding_mask = NoTensor
    /\ src_dir = <<>>
    /\ output_dir = EmptyDir
    /\ run = NoRun
    /\ runs = <<>>

ConstructAffineLayer ==
    /\ module.cls = "none"
    /\ \E in_channels \in 1..MaxChannels, use_only_mean \in Bool, w \in Weights :
           module' = ResidualAffineCouplingLayer_init(in_channels, use_only_mean, w)
    /\ UNCHANGED <<x, x_mask, g, hist>>
    /\ UNCHANGED sdp_vars
    /\ UNCHANGED mask_vars
    /\ UNCHANGED fbank_vars

ConstructTransformersLayer ==
    /\ module.cls = "none"
    /\ \E in_channels \in 1..MaxChannels, use_only_mean \in Bool,
          use_post_transformer \in Bool, w \in Weights :
           module' = ResidualCouplingTransformersLayer_init(
                         in_channels, use_only_mean, use_post_transformer, w)
    /\ UNCHANGED <<x, x_mask, g, hist>>
    /\ UNCHANGED sdp_vars
    /\ UNCHANGED mask_vars
    /\ UNCHANGED fbank_vars

ConstructBlock ==
    /\ module.cls = "none"
    /\ \E in_channels \in 1..MaxChannels, flows \in 0..MaxFlows,
          use_only_mean \in Bool, use_post_transformer \in Bool,
          use_transformer_flows \in Bool, w \in Weights :
           \* use_post_transformer reaches the transformer layers only
           /\ (~use_transformer_flows => ~use_post_transformer)
           /\ module' = ResidualCouplingBlock_init(
                           in_channels, flows, use_only_mean, use_post_transformer,
                           use_transformer_flows, [i \in 1..flows |-> w])
    /\ UNCHANGED <<x, x_mask, g, hist>>
    /\ UNCHANGED sdp_vars
    /\ UNCHANGED mask_vars
    /\ UNCHANGED fbank_vars

\* The external optimizer updates the parameters the module owns, between the
\* calls made on one piece of data.
WithWeights(m, w) == [m EXCEPT !.p = w]

OptimizerStep ==
    /\ module.status = "ok"
    /\ x = <<>>
    /\ \E w1 \in Weights, w2 \in Weights :
           module' =
               IF module.cls = "ResidualCouplingBlock"
               THEN [module EXCEPT !.flows =
                        [i \in 1..Len(module.flows) |->
                            IF module.flows[i].cls = "FlipFlow" THEN module.flows[i]
                            ELSE WithWeights(module.flows[i],
                                             IF i = 1 THEN w1 ELSE w2)]]
               ELSE WithWeights(module, w1)
    /\ UNCHANGED <<x, x_mask, g, hist>>
    /\ UNCHANGED sdp_vars
    /\ UNCHANGED mask_vars
    /\ UNCHANGED fbank_vars

\* the caller brings a tensor (B, in_channels, T) with its mask and conditioning
Feed ==
    /\ module.status = "ok"
    /\ x = <<>>
    /\ \E T \in 1..MaxT :
         \E xi \in Tensors(module.in_channels, T, 0..MaxVal), mi \in Masks(T),
            gi \in {<<>>, <<Num(1)>>} :
             /\ x' = xi
             /\ x_mask' = mi
             /\ g' = gi
    /\ UNCHANGED <<module, hist>>
    /\ UNCHANGED sdp_vars
    /\ UNCHANGED mask_vars
    /\ UNCHANGED fbank_vars

CallAffineLayer ==
    /\ module.status = "ok"
    /\ module.cls = "ResidualAffineCouplingLayer"
    /\ x # <<>>
    /\ Len(hist) < MaxCalls
    /\ \E inverse \in Bool :
         LayerCalled(inverse,
             ResidualAffineCouplingLayer_forward(module, x, x_mask, g, inverse))
    /\ UNCHANGED <<module, x_mask, g>>
    /\ UNCHANGED sdp_vars
    /\ UNCHANGED mask_vars
    /\ UNCHANGED fbank_vars

CallTransformersLayer ==
    /\ module.status = "ok"
    /\ module.cls = "ResidualCouplingTransformersLayer"
    /\ x # <<>>
    /\ Len(hist) < MaxCalls
    /\ \E inverse \in Bool :
         LayerCalled(inverse,
             ResidualCouplingTransformersLayer_forward(module, x, x_mask, g, inverse))
    /\ UNCHANGED <<module, x_mask, g>>
    /\ UNCHANGED sdp_vars
    /\ UNCHANGED mask_vars
    /\ UNCHANGED fbank_vars

CallBlock ==
    /\ module.status = "ok"
    /\ module.cls = "ResidualCouplingBlock"
    /\ x # <<>>
    /\ Len(hist) < MaxCalls
    /\ \E inverse \in Bool :
         BlockCalled(inverse,
             ResidualCouplingBlock_forward(module, x, x_mask, g, inverse))
    /\ UNCHANGED <<module, x_mask, g>>
    /\ UNCHANGED sdp_vars
    /\ UNCHANGED mask_vars
    /\ UNCHANGED fbank_vars

Next ==
    \/ ConstructAffineLayer
    \/ ConstructTransformersLayer
    \/ ConstructBlock
    \/ OptimizerStep
    \/ Feed
    \/ CallAffineLayer
    \/ CallTransformersLayer
    \/ CallBlock

Spec == Init /\ [][Next]_vars

\* ---------------------------------------------------------------- predictor actions
ConstructPredictor ==
    /\ sdp.cls = "none"
    /\ \E flows \in 0..MaxFlows, global_channels \in {-1, 0, 1} :
           sdp' = StochasticDurationPredictor_init(flows, global_channels,
                                                   InitialSDPWeights)
    /\ UNCHANGED <<sdp_x, sdp_mask, sdp_g, result>>
    /\ UNCHANGED coupling_vars
    /\ UNCHANGED mask_vars
    /\ UNCHANGED fbank_vars

\* the external optimizer updates the parameters of the flow stages
PredictorOptimizerStep ==
    /\ sdp.cls # "none"
    /\ sdp_x = <<>>
    /\ \E w \in SDPWeights :
           sdp' = [sdp EXCEPT
                     !.flows = [i \in 1..Len(sdp.flows) |->
                                   Stage(sdp.flows[i].cls, w)],
                     !.post_flows = [i \in 1..Len(sdp.post_flows) |->
                                        Stage(sdp.post_flows[i].cls, w)]]
    /\ UNCHANGED <<sdp_x, sdp_mask, sdp_g, result>>
    /\ UNCHANGED coupling_vars
    /\ UNCHANGED mask_vars
    /\ UNCHANGED fbank_vars

\* the caller brings the text encoding with its mask and conditioning
PredictorFeed ==
    /\ sdp.cls # "none"
    /\ sdp_x = <<>>
    /\ \E T \in 1..MaxT :
         \E xi \in [1..T -> {Num(v) : v \in 0..MaxVal}], mi \in Masks(T),
            gi \in {<<>>, <<Num(1)>>} :
             /\ sdp_x' = xi
             /\ sdp_mask' = mi
             /\ sdp_g' = gi
    /\ UNCHANGED <<sdp, result>>
    /\ UNCHANGED coupling_vars
    /\ UNCHANGED mask_vars
    /\ UNCHANGED fbank_vars

\* the durations a caller may pass: None, or positive where the mask is 1
Durations(T) ==
    {<<>>} \cup {<<row>> : row \in [1..T -> {Num(v) : v \in 1..(MaxVal + 1)}]}

\* forward(x, x_mask, w, g, inverse=False)
CallLikelihood ==
    /\ sdp.cls # "none"
    /\ sdp_x # <<>>
    /\ result.status = "none"
    /\ \E w \in Durations(Len(sdp_x)),
          noise \in Tensors(2, Len(sdp_x), (-MaxVal)..MaxVal) :
           result' = StochasticDurationPredictor_forward(
                         sdp, sdp_x, sdp_mask, w, sdp_g, FALSE, 1, noise)
    /\ UNCHANGED <<sdp, sdp_x, sdp_mask, sdp_g>>
    /\ UNCHANGED coupling_vars
    /\ UNCHANGED mask_vars
    /\ UNCHANGED fbank_vars

\* forward(x, x_mask, w, g, inverse=True, noise_scale)
CallSampling ==
    /\ sdp.cls # "none"
    /\ sdp_x # <<>>
    /\ result.status = "none"
    /\ \E w \in {<<>>, <<[t \in 1..Len(sdp_x) |-> Num(1)]>>}, noise_scale \in {1, 2},
          noise \in Tensors(2, Len(sdp_x), (-MaxVal)..MaxVal) :
           result' = StochasticDurationPredictor_forward(
                         sdp, sdp_x, sdp_mask, w, sdp_g, TRUE, noise_scale, noise)
    /\ UNCHANGED <<sdp, sdp_x, sdp_mask, sdp_g>>
    /\ UNCHANGED coupling_vars
    /\ UNCHANGED mask_vars
    /\ UNCHANGED fbank_vars

NextSDP ==
    \/ ConstructPredictor
    \/ PredictorOptimizerStep
    \/ PredictorFeed
    \/ CallLikelihood
    \/ CallSampling

SpecSDP == Init /\ [][NextSDP]_vars

\* ---------------------------------------------------------------- transformer mask
\* a batch comes with its mask x_mask of shape (B, 1, T), values in {0, 1}
FeedBatch ==
    /\ \E B \in 1..MaxBatch, T \in 1..MaxT :
         \E data \in [1..(B * T) -> {0, 1}] :
             batch_mask' = ShapedTensor(<<B, 1, T>>, data)
    /\ padding_mask' = NoTensor
    /\ UNCHANGED coupling_vars
    /\ UNCHANGED sdp_vars
    /\ UNCHANGED fbank_vars

\* ResidualCouplingTransformersLayer.forward computes transformer_mask
ComputeTransformerMask ==
    /\ batch_mask # NoTensor
    /\ padding_mask = NoTensor
    /\ padding_mask' = transformer_mask(batch_mask)
    /\ UNCHANGED batch_mask
    /\ UNCHANGED coupling_vars
    /\ UNCHANGED sdp_vars
    /\ UNCHANGED fbank_vars

NextMask ==
    \/ FeedBatch
    \/ ComputeTransformerMask

SpecMask == Init /\ [][NextMask]_vars

\* ---------------------------------------------------------------- feature extraction runs
\* the recipe's earlier stage leaves the recordings manifest in data/manifests
PrepareManifests ==
    /\ src_dir = <<>>
    /\ \E n \in 1..MaxRecordings :
         \E recordings \in [1..n -> 1..MaxRecordings] :
             /\ \A i, j \in 1..n : recordings[i] = recordings[j] => i = j
             /\ src_dir' = recordings
    /\ UNCHANGED <<output_dir, run, runs>>
    /\ UNCHANGED coupling_vars
    /\ UNCHANGED sdp_vars
    /\ UNCHANGED mask_vars

\* compute_spectrogram_ljspeech up to the executor: the manifests are loaded
StartRun ==
    /\ run.pc = "none"
    /\ src_dir # <<>>
    /\ Len(runs) < MaxRuns
    /\ run' = [NoRun EXCEPT !.pc = "loaded", !.recordings = src_dir,
                            !.before = output_dir]
    /\ UNCHANGED <<src_dir, output_dir, runs>>
    /\ UNCHANGED coupling_vars
    /\ UNCHANGED sdp_vars
    /\ UNCHANGED mask_vars

\* if (output_dir / cuts_filename).is_file():
LookForCuts ==
    /\ run.pc = "loaded"
    /\ run' = [run EXCEPT !.looked = TRUE,
                          !.existed = is_file(output_dir),
                          !.pc = IF is_file(output_dir) THEN "found" ELSE "absent"]
    /\ UNCHANGED <<src_dir, output_dir, runs>>
    /\ UNCHANGED coupling_vars
    /\ UNCHANGED sdp_vars
    /\ UNCHANGED mask_vars

\* the cuts manifest is there: logging.info("... already exists - skipping.")
SkipExisting ==
    /\ run.pc = "found"
    /\ run' = [run EXCEPT !.log = Append(run.log, "already exists - skipping."),
                          !.pc = "logged"]
    /\ UNCHANGED <<src_dir, output_dir, runs>>
    /\ UNCHANGED coupling_vars
    /\ UNCHANGED sdp_vars
    /\ UNCHANGED mask_vars

\* the return statement of the skipping branch leaves the with block
ReturnEarly ==
    /\ run.pc = "logged"
    /\ run' = [run EXCEPT !.pc = "left"]
    /\ UNCHANGED <<src_dir, output_dir, runs>>
    /\ UNCHANGED coupling_vars
    /\ UNCHANGED sdp_vars
    /\ UNCHANGED mask_vars

\* the cuts manifest is not there: logging.info("Processing all")
LogProcessing ==
    /\ run.pc = "absent"
    /\ run' = [run EXCEPT !.log = Append(run.log, "Processing all"),
                          !.pc = "processing"]
    /\ UNCHANGED <<src_dir, output_dir, runs>>
    /\ UNCHANGED coupling_vars
    /\ UNCHANGED sdp_vars
    /\ UNCHANGED mask_vars

\* the cut set is made of the manifests
BeginProcessing ==
    /\ run.pc = "processing"
    /\ run' = [run EXCEPT !.pc = "computing",
                          !.cut_set = from_manifests(run.recordings)]
    /\ UNCHANGED <<src_dir, output_dir, runs>>
    /\ UNCHANGED coupling_vars
    /\ UNCHANGED sdp_vars
    /\ UNCHANGED mask_vars

\* compute_and_store_features, one cut at a time
ComputeAndStore ==
    /\ run.pc = "computing"
    /\ run.done < Len(run.cut_set)
    /\ output_dir' = store_features(output_dir, run.cut_set[run.done + 1])
    /\ run' = [run EXCEPT
                 !.done = run.done + 1,
                 !.cut_set[run.done + 1] = with_features(run.cut_set[run.done + 1]),
                 !.computed = Append(run.computed,
                                     run.cut_set[run.done + 1].recording),
                 !.writes = Append(run.writes, "feats"),
                 !.pc = IF run.done + 1 = Len(run.cut_set) THEN "computed"
                        ELSE "computing"]
    /\ UNCHANGED <<src_dir, runs>>
    /\ UNCHANGED coupling_vars
    /\ UNCHANGED sdp_vars
    /\ UNCHANGED mask_vars

\* cut_set.to_file(...), the last statement of the with block
WriteCuts ==
    /\ run.pc = "computed"
    /\ output_dir' = to_file(output_dir, run.cut_set)
    /\ run' = [run EXCEPT !.writes = Append(run.writes, "cuts"),
                          !.pc = "written"]
    /\ UNCHANGED <<src_dir, runs>>
    /\ UNCHANGED coupling_vars
    /\ UNCHANGED sdp_vars
    /\ UNCHANGED mask_vars

\* the end of the with block is reached: get_executor's exit
LeaveExecutor ==
    /\ run.pc = "written"
    /\ run' = [run EXCEPT !.pc = "left"]
    /\ UNCHANGED <<src_dir, output_dir, runs>>
    /\ UNCHANGED coupling_vars
    /\ UNCHANGED sdp_vars
    /\ UNCHANGED mask_vars

\* compute_spectrogram_ljspeech returns, by the return statement of the
\* skipping branch or at its end
FunctionReturns ==
    /\ run.pc = "left"
    /\ runs' = Append(runs, Ended(run, IF run.existed THEN "skipped"
                                       ELSE "completed", output_dir))
    /\ run' = NoRun
    /\ UNCHANGED <<src_dir, output_dir>>
    /\ UNCHANGED coupling_vars
    /\ UNCHANGED sdp_vars
    /\ UNCHANGED mask_vars

\* the process is killed between two of its steps, the steps after the last
\* write included; the files stay as they are
Interrupt ==
    /\ run.pc # "none"
    /\ runs' = Append(runs, Ended(run, "interrupted", output_dir))
    /\ run' = NoRun
    /\ UNCHANGED <<src_dir, output_dir>>
    /\ UNCHANGED coupling_vars
    /\ UNCHANGED sdp_vars
    /\ UNCHANGED mask_vars

NextFbank ==
    \/ PrepareManifests
    \/ StartRun
    \/ LookForCuts
    \/ SkipExisting
    \/ ReturnEarly
    \/ LogProcessing
    \/ BeginProcessing
    \/ ComputeAndStore
    \/ WriteCuts
    \/ LeaveExecutor
    \/ FunctionReturns
    \/ Interrupt

SpecFbank == Init /\ [][NextFbank]_vars

\* ---------------------------------------------------------------- claims
CouplingLayers == {"ResidualAffineCouplingLayer", "ResidualCouplingTransformersLayer"}

\* every call of a coupling layer made so far, direct or as a stage of a block
LayerCalls ==
    IF module.cls \in CouplingLayers
    THEN {[cls |-> module.cls, inverse |-> hist[k].inverse,
           x_in |-> hist[k].x_in, x_out |-> hist[k].x_out] : k \in 1..Len(hist)}
    ELSE UNION {
           {[cls |-> hist[k].trace[j].cls, inverse |-> hist[k].inverse,
             x_in |-> hist[k].trace[j].x_in, x_out |-> hist[k].trace[j].x_out] :
              j \in {i \in 1..Len(hist[k].trace) :
                        hist[k].trace[i].cls \in CouplingLayers}} :
           k \in 1..Len(hist)}

\* C1: in both coupling layers and in both directions the first channel half
\* of the output is the first channel half of the input.
C1_XaPassedThrough ==
    \A c \in LayerCalls :
        SplitA(c.x_out, Len(c.x_out) \div 2) = SplitA(c.x_in, Len(c.x_in) \div 2)

\* each stage of the forward call undoes itself on the valid positions:
\* its inverse, given what it returned, gives back what it was given
StagesBijective(call) ==
    \A j \in 1..Len(call.trace) :
        EqualOnValid(
            StageCall(module.flows[call.trace[j].index], call.trace[j].x_out,
                      x_mask, g, TRUE).x,
            call.trace[j].x_in, x_mask)

\* the stages of a call were applied one after the other, each on what the
\* one before returned
Chained(call) ==
    /\ Len(call.trace) = Len(module.flows)
    /\ \A j \in 1..Len(call.trace) :
          /\ call.trace[j].inverse = call.inverse
          /\ call.trace[j].x_in = IF j = 1 THEN call.x_in ELSE call.trace[j - 1].x_out
    /\ call.x_out = IF call.trace = <<>> THEN call.x_in
                    ELSE call.trace[Len(call.trace)].x_out

\* C2: the block applies its stages in list order when inverse=False and in
\* the reverse order, each in its inverse direction, when inverse=True; and
\* when every stage is a bijection on the valid positions, inverse after
\* forward gives x back on the valid positions.
C2_BlockOrderAndRoundTrip ==
    module.cls = "ResidualCouplingBlock" =>
      /\ \A k \in 1..Len(hist) :
            /\ Chained(hist[k])
            /\ \A j \in 1..Len(hist[k].trace) :
                  hist[k].trace[j].index =
                      IF hist[k].inverse THEN Len(module.flows) + 1 - j ELSE j
      /\ \A k \in 1..(Len(hist) - 1) :
            (/\ ~hist[k].inverse
             /\ hist[k + 1].inverse
             /\ StagesBijective(hist[k]))
            => EqualOnValid(hist[k + 1].x_out, hist[k].x_in, x_mask)

C2_Witness ==
    /\ module.cls = "ResidualCouplingBlock"
    /\ Len(module.flows) = 4
    /\ \A i \in {1, 3} : /\ module.flows[i].p.proj_mw # 0
                         /\ ~module.flows[i].use_only_mean
    /\ Len(hist) = 2
    /\ ~hist[1].inverse
    /\ hist[2].inverse
    /\ StagesBijective(hist[1])
    /\ \E t \in 1..Len(x_mask) : x_mask[t] = 1
    /\ \E t \in 1..Len(x_mask) : x_mask[t] = 0
    /\ ~EqualOnValid(hist[1].x_out, hist[1].x_in, x_mask)
    /\ EqualOnValid(hist[2].x_out, hist[1].x_in, x_mask)

\* C3: for the affine coupling layer, with or without log-scales, inverse
\* after forward (same mask and conditioning) gives x back on the valid
\* positions.
C3_AffineRoundTrip ==
    module.cls = "ResidualAffineCouplingLayer" =>
      \A k \in 1..(Len(hist) - 1) :
         (~hist[k].inverse /\ hist[k + 1].inverse)
         => EqualOnValid(hist[k + 1].x_out, hist[k].x_in, x_mask)

C3_Witness ==
    /\ module.cls = "ResidualAffineCouplingLayer"
    /\ ~module.use_only_mean
    /\ Len(hist) = 2
    /\ ~hist[1].inverse
    /\ hist[2].inverse
    /\ hist[1].logdet # <<Num(0)>>
    /\ \E t \in 1..Len(x_mask) : x_mask[t] = 0
    /\ ~EqualOnValid(hist[1].x_out, hist[1].x_in, x_mask)
    /\ EqualOnValid(hist[2].x_out, hist[1].x_in, x_mask)

\* C6: constructing a coupling layer, or a block with flows >= 1, with an odd
\* in_channels fails at construction; with an even in_channels the layer
\* splits its input into two halves of in_channels/2 channels each.
C6_EvenChannelsRequired ==
    /\ module.status = "AssertionError" => module.in_channels % 2 = 1
    /\ (/\ module.status = "ok"
        /\ \/ module.cls \in CouplingLayers
           \/ module.cls = "ResidualCouplingBlock" /\ Len(module.flows) >= 1)
       => module.in_channels % 2 = 0
    /\ (module.status = "ok" /\ module.cls \in CouplingLayers)
       => /\ 2 * module.half_channels = module.in_channels
          /\ \A k \in 1..Len(hist) :
                /\ Len(SplitA(hist[k].x_in, Len(hist[k].x_in) \div 2))
                      = module.half_channels
                /\ Len(SplitB(hist[k].x_in, Len(hist[k].x_in) \div 2))
                      = module.half_channels
    /\ (module.status = "ok" /\ module.cls = "ResidualCouplingBlock")
       => \A i \in 1..Len(module.flows) :
             module.flows[i].cls \in CouplingLayers
             => 2 * module.flows[i].half_channels = module.in_channels

C6_Witness ==
    /\ module.cls \in CouplingLayers \cup {"ResidualCouplingBlock"}
    /\ module.status = "AssertionError"
    /\ module.in_channels % 2 = 1
    /\ hist = <<>>

\* C7: when the input is zero at every padded position, so is the output of a
\* coupling layer or of the block, after the forward and after the inverse pass.
C7_PaddingStaysZero ==
    \A k \in 1..Len(hist) :
        ZeroOnPadding(hist[k].x_in, x_mask) => ZeroOnPadding(hist[k].x_out, x_mask)

\* the conditioning half the layer computes its statistics from, the
\* statistics, and the projection before it is masked
LayerXa(x_in) ==
    IF module.cls = "ResidualAffineCouplingLayer"
    THEN SplitA(x_in, Len(x_in) \div 2)
    ELSE TransformersXa(module, SplitA(x_in, Len(x_in) \div 2), x_mask)

LayerStats(x_in) ==
    IF module.cls = "ResidualAffineCouplingLayer"
    THEN AffineStats(module, LayerXa(x_in), x_mask, g)
    ELSE TransformersStats(module, LayerXa(x_in), x_mask, g)

LayerProj(x_in) ==
    IF module.cls = "ResidualAffineCouplingLayer"
    THEN AffineProj(module, LayerXa(x_in), x_mask, g)
    ELSE TransformersProj(module, LayerXa(x_in), x_mask, g)

\* log_scale at channel c and frame t: the projection's log-scale channel, or
\* 0 everywhere when the layer estimates the mean only
LogScale(x_in, c, t) ==
    IF module.use_only_mean THEN Num(0)
    ELSE LayerProj(x_in)[module.half_channels + c][t]

\* C8: the forward pass of a coupling layer returns
\* xb' = mean + xb * exp(log_scale) * mask and logdet = the sum over channels
\* and time of log_scale * mask; with use_only_mean the logdet is 0 and
\* xb' = mean + xb * mask.
C8_ForwardUpdateAndLogdet ==
    module.cls \in CouplingLayers =>
      \A k \in 1..Len(hist) :
        ~hist[k].inverse =>
          LET xi == hist[k].x_in
              half == module.half_channels
              xb == SplitB(xi, half)
              out == SplitB(hist[k].x_out, half)
              mean == SubSeq(LayerStats(xi), 1, half)
          IN /\ Len(out) = half
             /\ \A c \in 1..half : \A t \in 1..Len(x_mask) :
                   out[c][t] =
                       Plus(mean[c][t],
                            Scaled(MulExp(xb[c][t], LogScale(xi, c, t)), x_mask[t]))
             /\ hist[k].logdet =
                   <<SumAll([c \in 1..half |-> [t \in 1..Len(x_mask) |->
                                Scaled(LogScale(xi, c, t), x_mask[t])]])>>
             /\ module.use_only_mean =>
                   /\ hist[k].logdet = <<Num(0)>>
                   /\ \A c \in 1..half : \A t \in 1..Len(x_mask) :
                         out[c][t] = Plus(mean[c][t], Scaled(xb[c][t], x_mask[t]))

C8_Witness ==
    /\ module.cls \in CouplingLayers
    /\ ~module.use_only_mean
    /\ Len(hist) >= 1
    /\ ~hist[1].inverse
    /\ hist[1].logdet # <<Num(0)>>
    /\ \E t \in 1..Len(x_mask) :
          /\ x_mask[t] = 0
          /\ LogScale(hist[1].x_in, 1, t) # Num(0)
          /\ SplitB(hist[1].x_in, module.half_channels)[1][t] # Num(0)
    /\ \E t \in 1..Len(x_mask) :
          /\ x_mask[t] = 1
          /\ SplitB(hist[1].x_out, module.half_channels)[1][t]
                # SplitB(hist[1].x_in, module.half_channels)[1][t]

\* the coupling-layer stages of a forward call of the block, in the order applied
CouplingStages(call) ==
    SelectSeq(call.trace, LAMBDA e : e.cls \in CouplingLayers)

\* the input channels whose data is in the transformed (second) half, and in
\* the conditioning (first) half, when stage e is applied
TransformedOrigins(e) ==
    {e.perm[c] : c \in (Len(e.perm) \div 2 + 1)..Len(e.perm)}

ConditioningOrigins(e) == {e.perm[c] : c \in 1..(Len(e.perm) \div 2)}

\* C9: in the forward pass of a block with N >= 2 flows every input channel
\* is in the transformed half of at least one coupling layer and in the
\* conditioning half of at least one, and consecutive coupling layers never
\* transform the same original half.
C9_FlipsAlternateHalves ==
    module.cls = "ResidualCouplingBlock" =>
      \A k \in 1..Len(hist) :
        LET cs == CouplingStages(hist[k])
        IN (~hist[k].inverse /\ Len(cs) >= 2) =>
             /\ \A ch \in 1..module.in_channels :
                   /\ \E j \in 1..Len(cs) : ch \in TransformedOrigins(cs[j])
                   /\ \E j \in 1..Len(cs) : ch \in ConditioningOrigins(cs[j])
             /\ \A j \in 1..(Len(cs) - 1) :
                   /\ TransformedOrigins(cs[j]) # TransformedOrigins(cs[j + 1])
                   /\ TransformedOrigins(cs[j + 1]) = ConditioningOrigins(cs[j])

C9_Witness ==
    /\ module.cls = "ResidualCouplingBlock"
    /\ Len(hist) >= 1
    /\ ~hist[1].inverse
    /\ Len(CouplingStages(hist[1])) = 2
    /\ TransformedOrigins(CouplingStages(hist[1])[1]) = {2}
    /\ TransformedOrigins(CouplingStages(hist[1])[2]) = {1}
    /\ hist[1].x_out # hist[1].x_in

\* the stage list of a constructed block: 2N stages for flows = N, a coupling
\* layer at the even positions (counted from 0) and a FlipFlow at the odd ones,
\* the coupling layers all of the kind use_transformer_flows selects
BlockStagesAlternate ==
    (module.cls = "ResidualCouplingBlock" /\ module.status = "ok") =>
        /\ Len(module.flows) = 2 * module.args.flows
        /\ \A i \in 0..(module.args.flows - 1) :
              /\ module.flows[2 * i + 1].cls =
                     (IF module.args.use_transformer_flows
                      THEN "ResidualCouplingTransformersLayer"
                      ELSE "ResidualAffineCouplingLayer")
              /\ module.flows[2 * i + 2].cls = "FlipFlow"

\* C11: a block constructed with flows = N >= 0 has exactly 2N stages, stage 2i
\* a coupling layer and stage 2i+1 a FlipFlow for 0 <= i < N; the N coupling
\* layers are all ResidualCouplingTransformersLayer when use_transformer_flows
\* is true and all ResidualAffineCouplingLayer otherwise; and no forward or
\* inverse call of the block changes the list
C11_StagesAlternateAndStay ==
    /\ []BlockStagesAlternate
    /\ [][CallBlock => module'.flows = module.flows]_vars

\* a block of two transformer flows that has run forward and inverse
C11_Witness ==
    /\ module.cls = "ResidualCouplingBlock"
    /\ module.status = "ok"
    /\ module.args.flows = 2
    /\ module.args.use_transformer_flows
    /\ Len(module.flows) = 4
    /\ \E j, k \in 1..Len(hist) : ~hist[j].inverse /\ hist[k].inverse

\* ---------------------------------------------------------------- predictor claims
Sampled == result.status = "ok" /\ result.inverse
Scored == result.status = "ok" /\ ~result.inverse

\* the stages of the main chain a sampling call applied, and left out
AppliedStages == {result.trace[j].index : j \in 1..Len(result.trace)}
ElidedStages == (1..Len(sdp.flows)) \ AppliedStages

\* what the whole reversed main chain makes of the scaled noise
FullReverseChain ==
    SDPLoop(sdp.flows, Reversed(Indices(sdp.flows)),
            [z |-> result.noise, logdet_tot |-> Num(0), trace |-> <<>>],
            sdp_mask, SDPFeatures(sdp, sdp_x, sdp_mask, sdp_g).x, TRUE).z

\* the logw the whole reversed main chain would return: the first of its two
\* channels
FullReverseLogw == <<FullReverseChain[1]>>

\* C4 as claimed: sampling leaves out exactly one stage of the reversed main
\* chain, a FlipFlow; every ElementwiseAffineFlow and ConvFlow is applied;
\* and leaving it out does not change the mapping: the logw returned is the
\* logw of the whole reversed chain.
C4_ElidedStageIsFlip ==
    (Sampled /\ Len(sdp.flows) >= 3) =>
      /\ Cardinality(ElidedStages) = 1
      /\ \A i \in ElidedStages : sdp.flows[i].cls = "FlipFlow"
      /\ \A i \in 1..Len(sdp.flows) :
            sdp.flows[i].cls \in {"ElementwiseAffineFlow", "ConvFlow"}
            => i \in AppliedStages
      /\ result.logw = FullReverseLogw

\* C4 as amended: sampling applies the main chain in reverse order, each
\* stage in its inverse direction, and with flows >= 1 leaves out exactly one
\* stage, the first ConvFlow of the chain (stage 2 of self.flows, next to
\* last in the reversed order); the ElementwiseAffineFlow, every FlipFlow and
\* every other ConvFlow is applied.  With flows = 0 nothing is left out.
\* Leaving the stage out does not change the mapping: the logw returned is
\* the logw the whole reversed chain would return.
C4_ElidedStageIsFirstConvFlow ==
    Sampled =>
      /\ result.logw = FullReverseLogw
      /\ \A j \in 1..Len(result.trace) : result.trace[j].inverse
      /\ Len(sdp.flows) = 1 =>
            [j \in 1..Len(result.trace) |-> result.trace[j].index] = <<1>>
      /\ Len(sdp.flows) >= 3 =>
            /\ Len(result.trace) = Len(sdp.flows) - 1
            /\ \A j \in 1..(Len(sdp.flows) - 2) :
                  result.trace[j].index = Len(sdp.flows) + 1 - j
            /\ result.trace[Len(sdp.flows) - 1].index = 1
            /\ ElidedStages = {2}
            /\ sdp.flows[2].cls = "ConvFlow"
            /\ \A i \in 1..Len(sdp.flows) :
                  sdp.flows[i].cls \in {"ElementwiseAffineFlow", "FlipFlow"}
                  => i \in AppliedStages

\* a sampling call of a predictor with two flows, where the ConvFlow left out
\* would have changed the second channel at a valid frame, and the logw
\* returned, not zero there, is that of the whole reversed chain
C4_Witness ==
    /\ Sampled
    /\ Len(sdp.flows) = 5
    /\ ElidedStages = {2}
    /\ \E t \in 1..Len(sdp_mask) :
          /\ sdp_mask[t] = 1
          /\ result.z[2][t] # FullReverseChain[2][t]
          /\ result.logw[1][t] # Num(0)
    /\ \E t \in 1..Len(sdp_mask) : sdp_mask[t] = 0
    /\ result.logw = FullReverseLogw

\* the call gave g to a predictor constructed without global_channels > 0:
\* forward raises at self.global_conv, whatever w and inverse are
ConditioningRefused == sdp_g # <<>> /\ ~sdp.global_conv

\* C5: a call in likelihood mode without w fails with an error, and it fails
\* before any posterior or main flow stage is applied (nothing is computed
\* or returned); w missing is refused in likelihood mode only; in sampling
\* mode w is not required: whether the call succeeds does not depend on w,
\* and a call whose conditioning is accepted succeeds and returns logw of
\* shape (B, 1, T), with w = None too.
C5_LikelihoodNeedsDurations ==
    /\ (result.status # "none" /\ ~result.inverse /\ result.w = <<>>)
       => result.status \in {"AssertionError", "AttributeError"}
    /\ (result.status # "none" /\ ~ConditioningRefused)
       => (result.status = "AssertionError"
             <=> (~result.inverse /\ result.w = <<>>))
    /\ result.status \in {"AssertionError", "AttributeError"}
       => /\ result.post_trace = <<>>
          /\ result.trace = <<>>
          /\ result.logdet_log_flow = <<>>
          /\ result.value2 = <<>>
          /\ result.logw = <<>>
    /\ result.status = "AssertionError" => ~result.inverse
    /\ (result.status # "none" /\ result.inverse)
       => /\ result.status = IF ConditioningRefused THEN "AttributeError" ELSE "ok"
          /\ result.status = "ok"
             => /\ Len(result.logw) = 1
                /\ Len(result.logw[1]) = Len(sdp_mask)

C5_Witness ==
    /\ result.status = "AssertionError"
    /\ ~result.inverse
    /\ result.w = <<>>
    /\ Len(sdp.flows) >= 3
    /\ \E t \in 1..Len(sdp_mask) : sdp_mask[t] = 1
    /\ result.post_trace = <<>>
    /\ result.trace = <<>>

\* the logdets the stages of a loop returned, in the order of the calls
TraceLogdets(trace) == [j \in 1..Len(trace) |-> trace[j].logdet[1]]

\* total with each of the logdets added to it once, in order
RECURSIVE AddedInOrder(_, _)
AddedInOrder(total, logdets) ==
    IF logdets = <<>> THEN total
    ELSE AddedInOrder(Plus(total, Head(logdets)), Tail(logdets))

\* C10: in likelihood mode the main total is the Log Flow's logdet plus the
\* logdet of each of the 2N+1 main stages, once each in list order; the
\* posterior total is the logdet of each of the 2N+1 post stages, once each,
\* plus the dequantization term; and the value returned is (energy of z -
\* main total) + (-energy of e_q - posterior total), one scalar.
C10_LogdetsAddUp ==
    Scored =>
      /\ Len(result.trace) = Len(sdp.flows)
      /\ Len(result.post_trace) = Len(sdp.post_flows)
      /\ \A j \in 1..Len(result.trace) :
            /\ result.trace[j].index = j
            /\ ~result.trace[j].inverse
      /\ \A j \in 1..Len(result.post_trace) :
            /\ result.post_trace[j].index = j
            /\ ~result.post_trace[j].inverse
      /\ result.logdet_tot =
            AddedInOrder(result.logdet_log_flow[1], TraceLogdets(result.trace))
      /\ result.logdet_tot_q =
            Plus(AddedInOrder(Num(0), TraceLogdets(result.post_trace)),
                 Dequantization(result.z_q[1], sdp_mask))
      /\ result.z_q = IF result.post_trace = <<>> THEN result.noise
                      ELSE result.post_trace[Len(result.post_trace)].x_out
      /\ result.z = result.trace[Len(result.trace)].x_out
      /\ result.value2 =
            <<Plus(Minus(Energy2(result.z, sdp_mask), Scaled(result.logdet_tot, 2)),
                   Minus(Minus(Num(0), Energy2(result.noise, sdp_mask)),
                         Scaled(result.logdet_tot_q, 2)))>>

C10_Witness ==
    /\ Scored
    /\ Len(sdp.flows) = 5
    /\ result.logdet_log_flow # <<Num(0)>>
    /\ AddedInOrder(Num(0), TraceLogdets(result.trace)) # Num(0)
    /\ AddedInOrder(Num(0), TraceLogdets(result.post_trace)) # Num(0)
    /\ Dequantization(result.z_q[1], sdp_mask) # Num(0)
    /\ \E t \in 1..Len(sdp_mask) : sdp_mask[t] = 0
    /\ \E j \in 1..Len(result.trace) :
          result.trace[j].cls = "ConvFlow" /\ result.trace[j].logdet # <<Num(0)>>

\* C12: in sampling mode the noise drawn is multiplied by noise_scale and enters
\* the flow chain as it is, without being multiplied by x_mask; the last stage
\* applied is the inverse of the ElementwiseAffineFlow, the first stage of the
\* main chain, and the logw returned has shape (B, 1, T) and is zero at every
\* padded position
C12_SampledLogwZeroOnPadding ==
    Sampled =>
        /\ result.trace # <<>>
        /\ result.trace[1].x_in =
               [c \in 1..Len(result.drawn) |-> [t \in 1..Len(result.drawn[c]) |->
                   Scaled(result.drawn[c][t], result.noise_scale)]]
        /\ result.trace[Len(result.trace)].index = 1
        /\ result.trace[Len(result.trace)].cls = "ElementwiseAffineFlow"
        /\ result.trace[Len(result.trace)].inverse
        /\ sdp.flows[1].cls = "ElementwiseAffineFlow"
        /\ Len(result.logw) = 1
        /\ Len(result.logw[1]) = Len(sdp_mask)
        /\ ZeroOnPadding(result.logw, sdp_mask)

\* a sampling call whose scaled noise is not zero at a padded position of the
\* channel that becomes logw, through a chain of more than one stage
C12_Witness ==
    /\ Sampled
    /\ Len(result.trace) > 1
    /\ result.noise_scale = 2
    /\ \E t \in 1..Len(sdp_mask) :
          /\ sdp_mask[t] = 0
          /\ \A j \in 1..Len(result.trace) : result.trace[j].x_in[1][t] # Num(0)
          /\ result.logw[1][t] = Num(0)
    /\ \E t \in 1..Len(sdp_mask) : sdp_mask[t] = 1 /\ result.logw[1][t] # Num(0)

\* C13: for every batch size B >= 1 and sequence length T >= 1, B = 1 and T = 1
\* included, the padding mask ResidualCouplingTransformersLayer.forward hands
\* to the transformer has shape (B, T) and is true exactly where x_mask is 1
C13_TransformerMaskShape ==
    padding_mask # NoTensor =>
        /\ padding_mask.shape = <<batch_mask.shape[1], batch_mask.shape[3]>>
        /\ Len(padding_mask.data) = Len(batch_mask.data)
        /\ \A i \in 1..Len(batch_mask.data) :
               padding_mask.data[i] = (batch_mask.data[i] = 1)

\* run k wrote the cuts manifest
WroteCuts(k) ==
    \E i \in 1..Len(runs[k].writes) : runs[k].writes[i] = "cuts"

\* C14: compute_spectrogram_ljspeech is idempotent across runs.  A run that
\* finds the cuts manifest computes no features and writes or changes no file,
\* and when it returns it has skipped; a run returns by skipping only when it
\* found the cuts manifest.  A run that does not find it and completes has
\* computed and stored the features of every recording and written the cuts
\* manifest as its last step; whenever the cuts manifest is written, it is
\* the last write, after the features of every recording.  A run interrupted
\* before that step leaves no cuts manifest.  So a run finds the cuts
\* manifest exactly when an earlier run took that last step: every run after
\* a completed one is a no-op, and the run after one interrupted before the
\* last step, with no cuts manifest from earlier, does all the work again.
C14_IdempotentAcrossRuns ==
    \A k \in 1..Len(runs) :
        /\ (runs[k].looked /\ runs[k].existed) =>
               /\ runs[k].outcome \in {"skipped", "interrupted"}
               /\ runs[k].computed = <<>>
               /\ runs[k].writes = <<>>
               /\ runs[k].after = runs[k].before
        /\ runs[k].outcome = "skipped" => (runs[k].looked /\ runs[k].existed)
        /\ runs[k].outcome = "completed" =>
               /\ runs[k].looked /\ ~runs[k].existed
               /\ WroteCuts(k)
        /\ WroteCuts(k) =>
               /\ runs[k].looked /\ ~runs[k].existed
               /\ runs[k].computed = runs[k].recordings
               /\ Len(runs[k].writes) = Len(runs[k].recordings) + 1
               /\ \A i \in 1..Len(runs[k].writes) :
                      (runs[k].writes[i] = "cuts") <=> (i = Len(runs[k].writes))
               /\ runs[k].after.cuts # <<>>
               /\ \A i \in 1..Len(runs[k].recordings) :
                      \E j \in 1..Len(runs[k].after.feats) :
                          runs[k].after.feats[j].recording = runs[k].recordings[i]
        /\ (runs[k].outcome = "interrupted" /\ ~WroteCuts(k)) =>
               runs[k].after.cuts = runs[k].before.cuts
        /\ runs[k].looked =>
               (runs[k].existed <=> \E j \in 1..(k - 1) : WroteCuts(j))
        /\ (runs[k].looked /\ \E j \in 1..(k - 1) : runs[j].outcome = "completed") =>
               /\ runs[k].existed
               /\ runs[k].after = runs[k].before
        /\ ( /\ k > 1
             /\ runs[k - 1].outcome = "interrupted"
             /\ ~WroteCuts(k - 1)
             /\ runs[k - 1].before.cuts = <<>>
             /\ runs[k].outcome # "interrupted" ) =>
               /\ runs[k].outcome = "completed"
               /\ runs[k].computed = runs[k].recordings

\* a run interrupted with part of the features stored, then a run that
\* completes, then a run that finds the cuts manifest and returns
C14_Witness ==
    \E k \in 1..(Len(runs) - 2) :
        /\ runs[k].outcome = "interrupted"
        /\ runs[k].computed # <<>>
        /\ Len(runs[k].computed) < Len(runs[k].recordings)
        /\ runs[k + 1].outcome = "completed"
        /\ Len(runs[k + 1].computed) = 2
        /\ runs[k + 2].outcome = "skipped"
        /\ runs[k + 2].log = <<"already exists - skipping.">>
        /\ runs[k + 2].after = runs[k + 1].after

====
